---- MODULE Spec2Model ----
(***************************************************************************)
(* Model of the pydedupe blocking / comparison engine (dedupe/indexer.py)  *)
(* and of its classifiers (dedupe/classification).                         *)
(*                                                                         *)
(* A record is the tuple <<id, value>>: Python field 0 is the identifier,  *)
(* field 1 a data value.  The value 0 stands for the empty value: as an    *)
(* index key it is one of the "non-keys" that Index.insert passes over,    *)
(* and a similarity primitive answers None (missing) for it.               *)
(***************************************************************************)
EXTENDS Integers, Sequences, FiniteSets, TLC

\* ---------------------------------------------------------------- bounds
\* Number of records of one matching run (split over the two collections).
NRec == 3
\* Data values (and index keys) range over 0..MaxVal.
MaxVal == 2
\* Number of Index instances of an Indeces collection.
NIdx == 2

\* Largest number of record pairs handed to a classifier.
NPairs == 3
\* Largest iteration cap (maxiter) given to kmeans.
MaxIter == 3

\* Python's None, as a similarity score, as a missing argument.
None == -1

Vals == 0..MaxVal
Ids == 1..NRec
Records == Ids \X Vals
Colls == {1, 2}

\* All the orders in which a set can be iterated.
Orders(S) ==
    {s \in [1..Cardinality(S) -> S] : \A i, j \in DOMAIN s : i # j => s[i] # s[j]}

\* ------------------------------------------------------- field comparators
\* getfield(record, field) with an integer field specifier: record[field].
getfield(record, field) == record[field + 1]

\* Similarity primitives (caller supplied).  All answer None for a missing
\* (None) value.  "exact" answers 1.0 / 0.0 and None when a value is empty;
\* "atmost" is not symmetric in its arguments; "closeness" is graded;
\* "negdist" is a negated distance, so its scores are zero or negative.
Prims == {"exact", "atmost", "closeness", "negdist"}
comparevalues(prim, v1, v2) ==
    IF v1 = None \/ v2 = None THEN None
    ELSE CASE prim = "exact"     -> IF v1 = 0 \/ v2 = 0 THEN None
                                    ELSE IF v1 = v2 THEN 1 ELSE 0
           [] prim = "atmost"    -> IF v1 <= v2 THEN 1 ELSE 0
           [] prim = "closeness" -> MaxVal - (IF v1 < v2 THEN v2 - v1 ELSE v1 - v2)
           [] prim = "negdist"   -> IF v1 < v2 THEN 2 * (v1 - v2) ELSE 2 * (v2 - v1)

\* Value encoders (caller supplied): the default lambda x:x, and one that
\* folds values together the way case folding does.
encode(enc, v) ==
    CASE enc = "identity" -> v
      [] enc = "fold"     -> IF v = 0 THEN 0 ELSE 1

\* ValueComparator.__init__: "field2 or field1", "encode2 or encode1" (an
\* omitted argument is None resp. "", and the field specifier 0 is falsy too).
ValueComparator(prim, field1, encode1, field2, encode2) ==
    [comparevalues |-> prim,
     field1 |-> field1,
     encode1 |-> encode1,
     field2 |-> IF field2 = None \/ field2 = 0 THEN field1 ELSE field2,
     encode2 |-> IF encode2 = "" THEN encode1 ELSE encode2]

\* ValueComparator.__call__
CallComparator(c, record1, record2) ==
    comparevalues(c.comparevalues,
                  encode(c.encode1, getfield(record1, c.field1)),
                  encode(c.encode2, getfield(record2, c.field2)))

\* The configured RecordComparator: an ordered list of field comparators.
Comparators ==
    << ValueComparator("exact", 1, "identity", None, ""),
       ValueComparator("atmost", 0, "identity", 1, "") >>

\* RecordComparator.compare: one component per comparator, in order.
compare(recordA, recordB) ==
    [i \in DOMAIN Comparators |-> CallComparator(Comparators[i], recordA, recordB)]

\* ------------------------------------------------------------------ Index
\* Key functions (caller supplied).  "field" answers one key, not a
\* sequence; "gram" answers a tuple of two keys.
KeyFns == {"field", "gram"}

makekey(fn, record) ==
    CASE fn = "field" -> [seq |-> FALSE, key |-> record[2]]
      [] fn = "gram"  -> [seq |-> TRUE,
                          keys |-> <<record[2], (record[2] + 1) % (MaxVal + 1)>>]

\* Index.insert, line 63-64: a single key becomes a one-element tuple.
KeysOf(fn, record) ==
    LET keys == makekey(fn, record)
    IN  IF keys.seq THEN keys.keys ELSE <<keys.key>>

\* Mutant of Truthy: the test "if key:" is dropped, every key is filed.
TruthyNoTest(key) == TRUE

\* A key that passes "if key:".
Truthy(key) == key # 0

\* dict.setdefault(key, set()) followed by set.add(record)
AddToBucket(index, key, record) ==
    IF key \in DOMAIN index
    THEN [index EXCEPT ![key] = @ \cup {record}]
    ELSE index @@ (key :> {record})

\* The loop of Index.insert over keys[i..]
RECURSIVE InsertKeys(_, _, _, _)
InsertKeys(index, keys, i, record) ==
    IF i > Len(keys) THEN index
    ELSE InsertKeys(IF Truthy(keys[i]) THEN AddToBucket(index, keys[i], record)
                    ELSE index,
                    keys, i + 1, record)

\* Index.insert(record): the index afterwards.
insert(index, fn, record) == InsertKeys(index, KeysOf(fn, record), 1, record)

EmptyIndex == [k \in {} |-> {}]

\* Mutant of CountSelf: "len(recs) > 2" for "len(recs) > 1".
RECURSIVE CountSelfOffByOne(_, _)
CountSelfOffByOne(index, keys) ==
    IF keys = {} THEN 0
    ELSE LET key == CHOOSE k \in keys : TRUE
             n == Cardinality(index[key])
         IN  (IF n > 2 THEN (n * (n - 1)) \div 2 ELSE 0)
             + CountSelfOffByOne(index, keys \ {key})

\* Index.count_comparisons: the loop over the buckets of one index.
RECURSIVE CountSelf(_, _)
CountSelf(index, keys) ==
    IF keys = {} THEN 0
    ELSE LET key == CHOOSE k \in keys : TRUE
             n == Cardinality(index[key])
         IN  (IF n > 1 THEN (n * (n - 1)) \div 2 ELSE 0)
             + CountSelf(index, keys \ {key})

\* Mutant of CountOther: the test "if key in other" counts a missing bucket
\* as one record.
RECURSIVE CountOtherNoTest(_, _, _)
CountOtherNoTest(index, other, keys) ==
    IF keys = {} THEN 0
    ELSE LET key == CHOOSE k \in keys : TRUE
         IN  (IF key \in DOMAIN other
              THEN Cardinality(index[key]) * Cardinality(other[key])
              ELSE Cardinality(index[key]))
             + CountOtherNoTest(index, other, keys \ {key})

\* Index.count_comparisons: the loop over the keys of self, against other.
RECURSIVE CountOther(_, _, _)
CountOther(index, other, keys) ==
    IF keys = {} THEN 0
    ELSE LET key == CHOOSE k \in keys : TRUE
         IN  (IF key \in DOMAIN other
              THEN Cardinality(index[key]) * Cardinality(other[key])
              ELSE 0)
             + CountOther(index, other, keys \ {key})

\* Index.count_comparisons(self, other).  otherIsSelf: other is self;
\* otherIsNone: other was omitted.
count_comparisons(index, other, otherIsSelf, otherIsNone) ==
    IF otherIsSelf \/ otherIsNone
    THEN CountSelf(index, DOMAIN index)
    ELSE CountOther(index, other, DOMAIN index)

\* ------------------------------------------------------ RecordComparator
\* A comparison run: the mapping being built and the instrumented number of
\* invocations of RecordComparator.compare per argument pair.
NoComparisons == [p \in {} |-> <<>>]
NoCalls == [p \in {} |-> 0]

Bump(calls, pair) ==
    IF pair \in DOMAIN calls
    THEN [calls EXCEPT ![pair] = @ + 1]
    ELSE calls @@ (pair :> 1)

\* Mutant of CacheCompare: the cache is not consulted.
CacheCompareAlways(run, pair, a, b) ==
    [comparisons |-> (pair :> compare(a, b)) @@ run.comparisons,
     calls |-> Bump(run.calls, <<a, b>>)]

\* "if pair not in comparisons: comparisons[pair] = self.compare(a, b)":
\* the key is `pair`, the records are passed to compare as (a, b).
CacheCompare(run, pair, a, b) ==
    IF pair \in DOMAIN run.comparisons
    THEN run
    ELSE [comparisons |-> run.comparisons @@ (pair :> compare(a, b)),
          calls |-> Bump(run.calls, <<a, b>>)]

\* compare_all_pairs, line 240: the pair sorted by identifier (a stable sort).
SortedPair(rec1, rec2) ==
    IF rec2[1] < rec1[1] THEN <<rec2, rec1>> ELSE <<rec1, rec2>>

\* compare_all_pairs: the loops "for i in range(len(records)):
\* for j in range(i)", from (i, j) on; indexes are 1-based here.  Line 239
\* asserts that the two records have different identifiers: when they have
\* not, AssertionError is raised and no mapping is returned.
RECURSIVE AllPairsLoop(_, _, _, _)
AllPairsLoop(run, records, i, j) ==
    IF i > Len(records) THEN run
    ELSE IF j >= i THEN AllPairsLoop(run, records, i + 1, 1)
    ELSE LET rec1 == records[i]
             rec2 == records[j]
             step == CacheCompare(run, SortedPair(rec1, rec2), rec1, rec2)
         IN  IF rec1[1] = rec2[1]
             THEN [comparisons |-> NoComparisons, calls |-> run.calls,
                   err |-> "AssertionError"]
             ELSE AllPairsLoop([comparisons |-> step.comparisons,
                                calls |-> step.calls, err |-> ""],
                               records, i, j + 1)

\* compare_all_pairs(records): the mapping returned (with the invocations of
\* compare), or the exception raised.
compare_all_pairs(records) ==
    AllPairsLoop([comparisons |-> NoComparisons, calls |-> NoCalls, err |-> ""],
                 records, 1, 1)

\* Mutant of SingleBucketLoop: "for j in range(i + 1)".
RECURSIVE SingleBucketLoopSelf(_, _, _, _)
SingleBucketLoopSelf(run, records, i, j) ==
    IF i > Len(records) THEN run
    ELSE IF j > i THEN SingleBucketLoopSelf(run, records, i + 1, 1)
    ELSE LET pair == <<records[i], records[j]>>
         IN  SingleBucketLoopSelf(CacheCompare(run, pair, pair[1], pair[2]),
                                  records, i, j + 1)

\* compare_indexed_single: the loops over one bucket, whose records were
\* listed in the order `records`.
RECURSIVE SingleBucketLoop(_, _, _, _)
SingleBucketLoop(run, records, i, j) ==
    IF i > Len(records) THEN run
    ELSE IF j >= i THEN SingleBucketLoop(run, records, i + 1, 1)
    ELSE LET pair == <<records[i], records[j]>>
         IN  SingleBucketLoop(CacheCompare(run, pair, pair[1], pair[2]),
                              records, i, j + 1)

\* compare_indexed_dual: the loops over the two buckets of one shared key,
\* iterated in the orders recs1 and recs2.
RECURSIVE DualBucketLoop(_, _, _, _, _)
DualBucketLoop(run, recs1, recs2, i, j) ==
    IF i > Len(recs1) THEN run
    ELSE IF j > Len(recs2) THEN DualBucketLoop(run, recs1, recs2, i + 1, 1)
    ELSE LET pair == <<recs1[i], recs2[j]>>
         IN  DualBucketLoop(CacheCompare(run, pair, pair[1], pair[2]),
                            recs1, recs2, i, j + 1)

\* ----------------------------------------------------------------- kmeans
\* Similarity scores are 0 (0.0), 1 (1.0) or None; a centroid component is
\* the quotient total/count, kept as the fraction [num, den] with den > 0
\* (with counts of 1 and 2 the quotients are exact in floating point too).
Scores == {None, 0, 1}
\* The vectors are those of the configured RecordComparator.
VLen == Len(Comparators)
Frac(n, d) == [num |-> n, den |-> d]
FracAdd(x, y) == Frac(x.num * y.den + y.num * x.den, x.den * y.den)
FracLess(x, y) == x.num * y.den < y.num * x.den
Abs(n) == IF n < 0 THEN -n ELSE n

\* The distance function (caller supplied): the sum over the components of
\* |v[i] - centroid[i]|, a component being discarded when v[i] is None.
RECURSIVE DistanceFrom(_, _, _)
DistanceFrom(v, centroid, i) ==
    IF i > Len(v) THEN Frac(0, 1)
    ELSE FracAdd(IF v[i] = None THEN Frac(0, 1)
                 ELSE Frac(Abs(v[i] * centroid[i].den - centroid[i].num),
                           centroid[i].den),
                 DistanceFrom(v, centroid, i + 1))
distance(v, centroid) == DistanceFrom(v, centroid, 1)

\* The values of component i that are not None, over all vectors.
Present(vectors, i) ==
    {vectors[k][i] : k \in {j \in DOMAIN vectors : vectors[j][i] # None}}
SetMax(S) == CHOOSE x \in S : \A y \in S : y <= x
SetMin(S) == CHOOSE x \in S : \A y \in S : x <= y

\* kmeans, line 93: the class a vector is assigned to (TRUE: match).
NearerHigh(v, high, low) == FracLess(distance(v, high), distance(v, low))

\* kmeans, lines 97-100 and 105-108: sum and number of the values of
\* component i that are not None, over the vectors k <= n of class cls.
RECURSIVE ClassTotal(_, _, _, _, _)
ClassTotal(vectors, assigned, cls, i, n) ==
    IF n = 0 THEN 0
    ELSE (IF assigned[n] = cls /\ vectors[n][i] # None THEN vectors[n][i] ELSE 0)
         + ClassTotal(vectors, assigned, cls, i, n - 1)
RECURSIVE ClassCount(_, _, _, _, _)
ClassCount(vectors, assigned, cls, i, n) ==
    IF n = 0 THEN 0
    ELSE (IF assigned[n] = cls /\ vectors[n][i] # None THEN 1 ELSE 0)
         + ClassCount(vectors, assigned, cls, i, n - 1)

\* kmeans, lines 58 and 61: dict.popitem() takes an item out of the mapping,
\* comparisons[k] = v puts it back.
popitem(d, k) == [j \in (DOMAIN d) \ {k} |-> d[j]]
\* Mutant of setitem: the popped item is not put back.
setitemDropped(d, k, v) == d
\* comparisons[k] = v.
setitem(d, k, v) == [j \in (DOMAIN d) \cup {k} |-> IF j = k THEN v ELSE d[j]]

\* kmeans, line 78: the loop condition.
LoopCondition(changed, its, cap) == changed >= 0 /\ its < cap

\* ================================================================= state
VARIABLES
    makekeys,     \* the key function of each Index position (configuration)
    records,      \* records[c]: the record list of collection c
    indeces,      \* indeces[c]: the Indeces object c, a sequence of Index
    ninserted,    \* ninserted[c]: how many records of c Indeces.insert has done
    pc,           \* phase of the matching run
    entry,        \* the driver method the caller invoked ("" before the call)
    arg1, arg2,   \* the Indeces objects handed to the driver (0: none)
    ipos,         \* position of the Index (pair) the driver is iterating
    seen,         \* keys of that Index already iterated
    layout,       \* the iteration order of the bucket sets listed so far
    comparisons,  \* the mapping the indexed driver is building / returned
    calls,        \* instrumentation: invocations of compare per argument pair
    allpairs,     \* the result of compare_all_pairs, once it ran
    count,        \* the call and result of Index.count_comparisons
    err,          \* the exception the run ended with ("" when none)
    \* ---- kmeans(vectors, distance, maxiter)
    vectors,      \* the comparisons mapping: key k -> similarity vector
    entered,      \* instrumentation: the mapping as it was when kmeans was called
    maxiter,      \* the iteration cap
    kpc,          \* where the call is: "call", "loop", "returned", "raised"
    assignments,  \* key -> class assigned (TRUE: match)
    high_centroid, low_centroid,
    n_changed,    \* pairs that changed class in the latest pass
    iters,        \* assignment passes executed
    firstzero,    \* instrumentation: first pass that changed no pair (0: none)
    matches, nomatches,  \* the sets returned
    kerr,         \* the exception kmeans raised ("" when none)
    \* ---- classify_bool(rule, rcomparisons) / classify(rule, rcomparisons)
    rule,         \* the caller's rule (its name)
    rcomparisons, \* the comparisons mapping: key k -> similarity vector
    rentry,       \* the function called: "classify_bool" or "classify"
    rpc,          \* where the call is: "loop", "returned", "raised"
    rtodo,        \* keys the for loop has still to visit
    rmatches, rnonmatches, runcertain,  \* the three sets being filled
    rresult,      \* what the call returned
    rerr,         \* the exception the call raised ("" when none)
    \* ---- SetComparator.__call__(record1, record2)
    svalues1, svalues2,  \* field1(record1), field2(record2): sets of values
    sprim,        \* comparevalues, the primitive (its name)
    sencode,      \* encode1 = encode2 (its name)
    spc,          \* where the call is: "call", "returned"
    sresult,      \* the score returned
    \* ---- kmeans on a mapping and on the same mapping with one more,
    \* ---- always missing, component in every vector
    tvectors,     \* the mapping without the extra component
    tmaxiter,     \* the iteration cap of both calls
    tpc,          \* "call", "done"
    tbase,        \* outcome of kmeans(tvectors)
    textended     \* outcome of kmeans(tvectors with the extra component)

idxvars == <<makekeys, entry, records, indeces, ninserted, pc, arg1, arg2, ipos,
             seen, layout, comparisons, calls, allpairs, count, err>>
kmvars == <<vectors, entered, maxiter, kpc, assignments, high_centroid,
            low_centroid, n_changed, iters, firstzero, matches, nomatches, kerr>>
rulevars == <<rule, rcomparisons, rentry, rpc, rtodo, rmatches, rnonmatches,
              runcertain, rresult, rerr>>
setvars == <<svalues1, svalues2, sprim, sencode, spc, sresult>>
twinvars == <<tvectors, tmaxiter, tpc, tbase, textended>>
vars == <<idxvars, kmvars, rulevars, setvars, twinvars>>
notidx == <<kmvars, rulevars, setvars, twinvars>>
notkm == <<idxvars, rulevars, setvars, twinvars>>
notrule == <<idxvars, kmvars, setvars, twinvars>>
notset == <<idxvars, kmvars, rulevars, twinvars>>
nottwin == <<idxvars, kmvars, rulevars, setvars>>

NoLayout == [b \in {} |-> <<>>]
NoCount == [self |-> <<0, 0>>, other |-> <<0, 0>>, result |-> 0]
NoRun == [comparisons |-> NoComparisons, calls |-> NoCalls, err |-> ""]

NoResult == <<>>

\* No rule-based classification is under way.
RuleIdle ==
    /\ rule = ""
    /\ rcomparisons = <<>>
    /\ rentry = ""
    /\ rpc = "idle"
    /\ rtodo = {}
    /\ rmatches = {}
    /\ rnonmatches = {}
    /\ runcertain = {}
    /\ rresult = NoResult
    /\ rerr = ""

\* No set comparison is under way.
SetIdle ==
    /\ svalues1 = {}
    /\ svalues2 = {}
    /\ sprim = ""
    /\ sencode = ""
    /\ spc = "idle"
    /\ sresult = NoResult

\* No pair of kmeans calls is under way.
TwinIdle ==
    /\ tvectors = <<>>
    /\ tmaxiter = 0
    /\ tpc = "idle"
    /\ tbase = NoResult
    /\ textended = NoResult

\* No classifier call is under way.
KMeansIdle ==
    /\ vectors = <<>>
    /\ entered = <<>>
    /\ maxiter = 0
    /\ kpc = "idle"
    /\ assignments = <<>>
    /\ high_centroid = <<>>
    /\ low_centroid = <<>>
    /\ n_changed = 0
    /\ iters = 0
    /\ firstzero = 0
    /\ matches = {}
    /\ nomatches = {}
    /\ kerr = ""

\* The two record collections: identifiers 1..n1 and n1+1..NRec, any values.
Init ==
    /\ KMeansIdle
    /\ RuleIdle
    /\ SetIdle
    /\ TwinIdle
    /\ makekeys = [p \in 1..NIdx |-> IF p % 2 = 1 THEN "field" ELSE "gram"]
    /\ \E n1 \in 0..NRec : \E val \in [Ids -> Vals] :
          records = [c \in Colls |->
                        IF c = 1 THEN [i \in 1..n1 |-> <<i, val[i]>>]
                        ELSE [i \in 1..(NRec - n1) |-> <<n1 + i, val[n1 + i]>>]]
    /\ indeces = [c \in Colls |-> [p \in 1..NIdx |-> EmptyIndex]]
    /\ ninserted = [c \in Colls |-> 0]
    /\ pc = "insert"
    /\ entry = ""
    /\ arg1 = 0
    /\ arg2 = 0
    /\ ipos = 0
    /\ seen = {}
    /\ layout = NoLayout
    /\ comparisons = NoComparisons
    /\ calls = NoCalls
    /\ allpairs = NoRun
    /\ count = NoCount
    /\ err = ""

\* Indeces.insert(records), one turn of its outer loop: the next record of
\* collection c goes into every Index of indeces[c].
IndecesInsert(c) ==
    /\ pc = "insert"
    /\ ninserted[c] < Len(records[c])
    /\ \A d \in Colls : d < c => ninserted[d] = Len(records[d])
    /\ LET record == records[c][ninserted[c] + 1]
       IN  indeces' = [indeces EXCEPT ![c] =
                          [p \in 1..NIdx |-> insert(indeces[c][p], makekeys[p], record)]]
    /\ ninserted' = [ninserted EXCEPT ![c] = @ + 1]
    /\ UNCHANGED <<makekeys, entry, records, pc, arg1, arg2, ipos, seen,
                   layout, comparisons, calls, allpairs, count, err>>
    /\ UNCHANGED notidx

\* Both collections are indexed: the indices are read-only from here on.
InsertDone ==
    /\ pc = "insert"
    /\ \A c \in Colls : ninserted[c] = Len(records[c])
    /\ pc' = "ready"
    /\ UNCHANGED <<makekeys, entry, records, indeces, ninserted, arg1, arg2, ipos,
                   seen, comparisons, calls, allpairs, count, err, layout>>
    /\ UNCHANGED notidx

\* index.count_comparisons(other) on the Index at `self` = <<c, p>>; other is
\* <<0, 0>> when omitted, else the place of an Index (maybe self).
CountComparisons(self, other) ==
    /\ pc = "ready"
    /\ count' = [self |-> self, other |-> other,
                 result |-> count_comparisons(
                     indeces[self[1]][self[2]],
                     IF other = <<0, 0>> THEN EmptyIndex
                     ELSE indeces[other[1]][other[2]],
                     other = self, other = <<0, 0>>)]
    /\ pc' = "counted"
    /\ UNCHANGED <<makekeys, entry, records, indeces, ninserted, arg1, arg2, ipos,
                   seen, comparisons, calls, allpairs, err, layout>>
    /\ UNCHANGED notidx

\* compare_all_pairs(recs), on the records the single-set indexed driver was
\* just run on, listed in any order.
CompareAllPairs ==
    /\ pc = "done"
    /\ entry = "compare_indexed_single"
    /\ \E recs \in Orders({records[arg1][i] : i \in DOMAIN records[arg1]}) :
          allpairs' = compare_all_pairs(recs)
    /\ pc' = "paired"
    /\ UNCHANGED <<makekeys, entry, records, indeces, ninserted, arg1, arg2, ipos, seen,
                   layout, comparisons, calls, count, err>>
    /\ UNCHANGED notidx

\* compare_indexed_single(indeces[1]) is entered: comparisons = {}.  c2 is
\* what the caller passed as second Indeces, if anything.
BeginSingle(c2) ==
    /\ arg1' = 1
    /\ arg2' = c2
    /\ comparisons' = NoComparisons
    /\ calls' = NoCalls
    /\ ipos' = 1
    /\ seen' = {}
    /\ pc' = "single"
    /\ UNCHANGED <<makekeys, records, indeces, ninserted, allpairs, count, err, layout>>
    /\ UNCHANGED notidx

\* compare_indexed_dual, line 277: assert indeces1 is not indeces2.
\* Mutant of AssertDistinct: the assert is not made.
AssertDistinctOff(c1, c2) == TRUE
\* The assert holds for Indeces objects c1, c2.
AssertDistinct(c1, c2) == c1 # c2

\* compare_indexed_dual(indeces[1], indeces[c2]) is entered: the assert,
\* then comparisons = {}.
BeginDual(c2) ==
    /\ arg1' = 1
    /\ arg2' = c2
    /\ comparisons' = NoComparisons
    /\ calls' = NoCalls
    /\ seen' = {}
    /\ IF ~AssertDistinct(1, c2)
       THEN /\ err' = "AssertionError"
            /\ ipos' = 0
            /\ pc' = "done"
       ELSE /\ err' = err
            /\ ipos' = 1
            /\ pc' = "dual"
    /\ UNCHANGED <<makekeys, records, indeces, ninserted, allpairs, count, layout>>
    /\ UNCHANGED notidx

\* The caller invokes compare_indexed_single(indeces[1]).
CompareIndexedSingle ==
    /\ pc = "ready"
    /\ entry' = "compare_indexed_single"
    /\ BeginSingle(0)

\* The caller invokes compare_indexed_dual(indeces[1], indeces[c2]).
CompareIndexedDual(c2) ==
    /\ pc = "ready"
    /\ entry' = "compare_indexed_dual"
    /\ BeginDual(c2)

\* The caller invokes compare_indexed(indeces[1], indeces2) with indeces2
\* omitted (c2 = 0) or indeces[c2].
CompareIndexed(c2) ==
    /\ pc = "ready"
    /\ entry' = "compare_indexed"
    /\ IF c2 = 1 \/ c2 = 0
       THEN BeginSingle(c2)
       ELSE BeginDual(c2)

\* a comes before b in the listing recs.
Before(recs, a, b) ==
    \E i, j \in DOMAIN recs : i < j /\ recs[i] = a /\ recs[j] = b

\* The records that were added to both sets S and T before either set got
\* a record the other lacks (Indeces.insert adds in identifier order here).
SharedHistory(S, T) ==
    {x \in S \cap T : \A y \in S \cup T : y[1] < x[1] => y \in S \cap T}

\* list(records) of a bucket set.  The order is arbitrary, but it is that of
\* the set's hash table: sets that were built by the same additions list
\* them alike (a later addition does not move the records already there).
Listing(bucket, recs) ==
    /\ recs \in Orders(bucket)
    /\ \A T \in DOMAIN layout : \A a, b \in SharedHistory(bucket, T) :
          Before(recs, a, b) <=> Before(layout[T], a, b)

\* compare_indexed_single: one turn of "for indexkey, records in
\* index.iteritems()": a bucket not yet visited, listed in some order.
SingleBucket ==
    /\ pc = "single"
    /\ ipos <= NIdx
    /\ LET index == indeces[arg1][ipos]
       IN  \E indexkey \in DOMAIN index \ seen :
           \E recs \in Orders(index[indexkey]) :
              LET run == SingleBucketLoop(
                             [comparisons |-> comparisons, calls |-> calls],
                             recs, 1, 1)
              IN  /\ Listing(index[indexkey], recs)
                  /\ comparisons' = run.comparisons
                  /\ calls' = run.calls
                  /\ seen' = seen \cup {indexkey}
                  /\ layout' = (index[indexkey] :> recs) @@ layout
    /\ UNCHANGED <<makekeys, entry, records, indeces, ninserted, pc, arg1, arg2,
                   ipos, allpairs, count, err>>
    /\ UNCHANGED notidx

\* compare_indexed_dual: one turn of "for indexkey in index1.iterkeys()".
DualBucket ==
    /\ pc = "dual"
    /\ ipos <= NIdx
    /\ LET index1 == indeces[arg1][ipos]
           index2 == indeces[arg2][ipos]
       IN  \E indexkey \in DOMAIN index1 \ seen :
              /\ seen' = seen \cup {indexkey}
              /\ IF indexkey \in DOMAIN index2
                 THEN \E recs1 \in Orders(index1[indexkey]) :
                      \E recs2 \in Orders(index2[indexkey]) :
                         LET run == DualBucketLoop(
                                        [comparisons |-> comparisons, calls |-> calls],
                                        recs1, recs2, 1, 1)
                         IN  /\ comparisons' = run.comparisons
                             /\ calls' = run.calls
                 ELSE UNCHANGED <<comparisons, calls>>
    /\ UNCHANGED <<makekeys, entry, records, indeces, ninserted, pc, arg1, arg2,
                   ipos, allpairs, count, err, layout>>
    /\ UNCHANGED notidx

\* The keys of the current Index are exhausted: the outer loop moves on.
NextIndex ==
    /\ pc \in {"single", "dual"}
    /\ ipos <= NIdx
    /\ DOMAIN indeces[arg1][ipos] \subseteq seen
    /\ ipos' = ipos + 1
    /\ seen' = {}
    /\ UNCHANGED <<makekeys, entry, records, indeces, ninserted, pc, arg1, arg2,
                   comparisons, calls, allpairs, count, err, layout>>
    /\ UNCHANGED notidx

\* "return comparisons"
Return ==
    /\ pc \in {"single", "dual"}
    /\ ipos > NIdx
    /\ pc' = "done"
    /\ UNCHANGED <<makekeys, entry, records, indeces, ninserted, arg1, arg2, ipos,
                   seen, comparisons, calls, allpairs, count, err, layout>>
    /\ UNCHANGED notidx

IndexPlaces == Colls \X (1..NIdx)

Next ==
    \/ \E c \in Colls : IndecesInsert(c)
    \/ InsertDone
    \/ \E self \in IndexPlaces : \E other \in IndexPlaces \cup {<<0, 0>>} :
          CountComparisons(self, other)
    \/ CompareAllPairs
    \/ CompareIndexedSingle
    \/ \E c2 \in Colls : CompareIndexedDual(c2)
    \/ \E c2 \in Colls \cup {0} : CompareIndexed(c2)
    \/ SingleBucket
    \/ DualBucket
    \/ NextIndex
    \/ Return

Spec == Init /\ [][Next]_vars

\* ================================================================ claims
\* The run in progress (or returned) is a single-set indexed comparison.
SingleRun == arg1 = 1 /\ arg2 \in {0, 1} /\ err = ""
\* The run in progress (or returned) is a dual-set indexed comparison.
DualRun == arg1 = 1 /\ arg2 = 2
\* The driver has returned its mapping.
Returned == pc \in {"done", "paired"}

\* The keys a record is filed under in the Index at position p.
FiledKeys(p, record) ==
    {KeysOf(makekeys[p], record)[i] : i \in DOMAIN KeysOf(makekeys[p], record)}
\* The places (position, key) whose bucket in Indeces c holds the record.
PlacesOf(c, record) ==
    {<<p, k>> \in (1..NIdx) \X Vals :
        k \in DOMAIN indeces[c][p] /\ record \in indeces[c][p][k]}
\* Two records of collection 1 share a bucket.
ShareBucket(a, b) == PlacesOf(1, a) \cap PlacesOf(1, b) # {}
\* The records of collection c inserted so far.
Inserted(c) == {records[c][i] : i \in 1..ninserted[c]}
\* Sum of f[p] over p in 1..n.
RECURSIVE SumTo(_, _)
SumTo(f, n) == IF n = 0 THEN 0 ELSE f[n] + SumTo(f, n - 1)

\* C1: during a run of compare_indexed_single no unordered pair of records
\* is passed to compare more than once, in either argument order.
C1_AtMostOncePerPair ==
    SingleRun =>
        \A p \in DOMAIN calls :
            /\ calls[p] <= 1
            /\ p[1] # p[2] => <<p[2], p[1]>> \notin DOMAIN calls

\* C2: every key (a, b) of the mapping of a self-linkage driver
\* (compare_indexed_single, compare_all_pairs) has a's identifier before b's.
C2_CanonicalKeys ==
    /\ SingleRun => \A p \in DOMAIN comparisons : p[1][1] < p[2][1]
    /\ pc = "paired" => \A p \in DOMAIN allpairs.comparisons : p[1][1] < p[2][1]

\* C3: the mapping of compare_indexed_single is a sub-mapping of that of
\* compare_all_pairs on the same records (same keys, same vectors), and the
\* all-pairs entries it lacks are pairs that share no blocking key.
C3_IndexedSubmapOfAllPairs ==
    pc = "paired" =>
        /\ \A p \in DOMAIN comparisons :
              /\ p \in DOMAIN allpairs.comparisons
              /\ allpairs.comparisons[p] = comparisons[p]
        /\ \A p \in DOMAIN allpairs.comparisons \ DOMAIN comparisons :
              ~ShareBucket(p[1], p[2])

\* C4 as stated: a record whose key function yields an empty key makes
\* Index.insert fail; it is never passed over with a normal return.
C4_EmptyKeyFails ==
    \A c \in Colls : \A record \in Inserted(c) : \A p \in 1..NIdx :
        0 \in FiledKeys(p, record) => err = "InvalidKeyError"

\* C4 amended: Index.insert never fails on an empty key: it passes over the
\* empty key and files the record under exactly its non-empty keys.
C4_InsertSkipsEmptyKeys ==
    /\ pc \in {"insert", "ready"} => err = ""
    /\ \A c \in Colls : \A p \in 1..NIdx :
          /\ 0 \notin DOMAIN indeces[c][p]
          /\ \A k \in DOMAIN indeces[c][p] :
                indeces[c][p][k] =
                    {record \in Inserted(c) : k \in FiledKeys(p, record)}
          /\ \A record \in Inserted(c) :
                FiledKeys(p, record) \ {0} \subseteq DOMAIN indeces[c][p]

\* C4 witness: a record with an empty key and a non-empty key was inserted
\* and Indeces.insert returned normally.
C4_Witness ==
    /\ pc = "ready"
    /\ err = ""
    /\ \E record \in Inserted(1) : \E p \in 1..NIdx :
          /\ 0 \in FiledKeys(p, record)
          /\ PlacesOf(1, record) # {}

\* The estimate for a single-set run: sum of index.count_comparisons().
CountSingle ==
    SumTo([p \in 1..NIdx |->
              count_comparisons(indeces[1][p], EmptyIndex, FALSE, TRUE)], NIdx)
\* The estimate for a dual run: sum of index1.count_comparisons(index2).
CountDual ==
    SumTo([p \in 1..NIdx |->
              count_comparisons(indeces[1][p], indeces[2][p], FALSE, FALSE)], NIdx)

\* C5: the number of entries of the indexed mapping never exceeds the sum of
\* count_comparisons over the (pairs of corresponding) Index instances.
C5_CountNeverUnderestimates ==
    /\ SingleRun => Cardinality(DOMAIN comparisons) <= CountSingle
    /\ DualRun => Cardinality(DOMAIN comparisons) <= CountDual

\* C5 witness: a returned single-set mapping with entries, fewer than the
\* estimate (a pair that shares two buckets is counted twice).
C5_Witness ==
    /\ pc = "done"
    /\ SingleRun
    /\ comparisons # NoComparisons
    /\ Cardinality(DOMAIN comparisons) < CountSingle

\* Reference counts, by counting: the two-record subsets of every bucket,
\* and the record pairs of every key the two indexes share.
RefCountSelf(index) ==
    Cardinality(UNION {{<<k, S>> : S \in {T \in SUBSET index[k] : Cardinality(T) = 2}} :
                          k \in DOMAIN index})
RefCountOther(index, other) ==
    Cardinality(UNION {{k} \X index[k] \X other[k] :
                          k \in DOMAIN index \cap DOMAIN other})

\* C6: count_comparisons(other) answers the reference count (the sum of
\* n*(n-1)/2 over the buckets when other is omitted or is the index itself,
\* else the sum of |bucket_self| * |bucket_other| over the shared keys),
\* and leaves the indexes as they were.
C6_CountIsReference ==
    [][(pc = "ready" /\ pc' = "counted") =>
          /\ indeces' = indeces
          /\ count'.result =
                IF count'.other = <<0, 0>> \/ count'.other = count'.self
                THEN RefCountSelf(indeces[count'.self[1]][count'.self[2]])
                ELSE RefCountOther(indeces[count'.self[1]][count'.self[2]],
                                   indeces[count'.other[1]][count'.other[2]])]_vars

\* C6 witness: count_comparisons against a different Index answered a count
\* other than the index's own.
C6_Witness ==
    /\ pc = "counted"
    /\ count.other \notin {<<0, 0>>, count.self}
    /\ count.result > 1
    /\ count.result # RefCountSelf(indeces[count.self[1]][count.self[2]])

\* C7: the unordered pairs that are keys of the mapping returned by
\* compare_indexed_single are exactly the pairs of distinct records that
\* share a bucket, and no key is a self-pair.
C7_ExactlyCandidatePairs ==
    (pc = "done" /\ SingleRun) =>
        /\ {{p[1], p[2]} : p \in DOMAIN comparisons} =
              {{a, b} : <<a, b>> \in
                  {x \in Inserted(1) \X Inserted(1) :
                      x[1] # x[2] /\ ShareBucket(x[1], x[2])}}
        /\ \A p \in DOMAIN comparisons : p[1] # p[2]

\* C7 witness: a returned mapping with an entry for a record that is filed
\* under two keys of one Index, and two records that are in no entry together.
C7_Witness ==
    /\ pc = "done"
    /\ SingleRun
    /\ \E p \in DOMAIN comparisons : \E x, y \in PlacesOf(1, p[1]) :
          x[1] = y[1] /\ x[2] # y[2]
    /\ \E a, b \in Inserted(1) :
          a # b /\ <<a, b>> \notin DOMAIN comparisons
                /\ <<b, a>> \notin DOMAIN comparisons

\* C8: the keys of the mapping returned by compare_indexed_dual are exactly
\* the pairs (r1, r2) with r1, r2 in the buckets of a key that the i-th
\* indexes of both collections have, oriented (first, second) collection,
\* and compare was invoked once for each.
C8_DualCrossProduct ==
    (pc = "done" /\ DualRun) =>
        /\ DOMAIN comparisons =
              {x \in Inserted(1) \X Inserted(2) :
                  PlacesOf(1, x[1]) \cap PlacesOf(2, x[2]) # {}}
        /\ DOMAIN calls = DOMAIN comparisons
        /\ \A p \in DOMAIN calls : calls[p] = 1

\* C8 witness: a returned dual mapping with a pair that is reached through
\* two places, beside a pair of records that is not compared.
C8_Witness ==
    /\ pc = "done"
    /\ DualRun
    /\ \E p \in DOMAIN comparisons :
          Cardinality(PlacesOf(1, p[1]) \cap PlacesOf(2, p[2])) >= 2
    /\ (Inserted(1) \X Inserted(2)) \ DOMAIN comparisons # {}

\* ======================================================== kmeans, the call
\* No matching run is under way.
IndexerIdle ==
    /\ makekeys = <<>>
    /\ records = <<>>
    /\ indeces = <<>>
    /\ ninserted = <<>>
    /\ pc = "idle"
    /\ entry = ""
    /\ arg1 = 0
    /\ arg2 = 0
    /\ ipos = 0
    /\ seen = {}
    /\ layout = NoLayout
    /\ comparisons = NoComparisons
    /\ calls = NoCalls
    /\ allpairs = NoRun
    /\ count = NoCount
    /\ err = ""

\* A vector as a number, to list the vectors of a mapping in one order.
RECURSIVE VCode(_, _)
VCode(v, i) == IF i > Len(v) THEN 0 ELSE (v[i] + 1) + 3 * VCode(v, i + 1)

\* kmeans is called with any mapping of up to NPairs keys (the keys are
\* 1..n; what the keys are plays no part, so the vectors are listed in
\* ascending order) and any cap.
InitKMeans ==
    /\ IndexerIdle
    /\ RuleIdle
    /\ SetIdle
    /\ TwinIdle
    /\ \E n \in 0..NPairs :
          /\ vectors \in [1..n -> [1..VLen -> Scores]]
          /\ \A k \in 1..(n - 1) : VCode(vectors[k], 1) <= VCode(vectors[k + 1], 1)
    /\ entered = vectors
    /\ maxiter \in 0..MaxIter
    /\ kpc = "call"
    /\ assignments = <<>>
    /\ high_centroid = <<>>
    /\ low_centroid = <<>>
    /\ n_changed = 0
    /\ iters = 0
    /\ firstzero = 0
    /\ matches = {}
    /\ nomatches = {}
    /\ kerr = ""

\* kmeans, lines 57-76 with an empty mapping: dict.popitem() raises.
KMeansEmpty ==
    /\ kpc = "call"
    /\ vectors = <<>>
    /\ kerr' = "KeyError"
    /\ kpc' = "raised"
    /\ UNCHANGED <<vectors, entered, maxiter, assignments, high_centroid,
                   low_centroid, n_changed, iters, firstzero, matches, nomatches>>
    /\ UNCHANGED notkm

\* kmeans, lines 57-76: an item is popped to read the vector length and put
\* back, then the initial assignment (all non-match) and the initial
\* centroids; max() / min() of no value raises.
KMeansSetup ==
    /\ kpc = "call"
    /\ vectors # <<>>
    /\ \E k \in DOMAIN vectors :
          LET v == vectors[k]
              vidx == 1..Len(v)
              restored == setitem(popitem(vectors, k), k, v)
          IN  /\ vectors' = restored
              /\ assignments' = [j \in DOMAIN restored |-> FALSE]
              /\ IF \E i \in vidx : Present(restored, i) = {}
                 THEN /\ kerr' = "ValueError"
                      /\ kpc' = "raised"
                      /\ UNCHANGED <<high_centroid, low_centroid, n_changed, iters>>
                 ELSE /\ high_centroid' =
                            [i \in vidx |-> Frac(SetMax(Present(restored, i)), 1)]
                      /\ low_centroid' =
                            [i \in vidx |-> Frac(SetMin(Present(restored, i)), 1)]
                      /\ n_changed' = 1
                      /\ iters' = 0
                      /\ kpc' = "loop"
                      /\ kerr' = kerr
    /\ UNCHANGED <<entered, maxiter, firstzero, matches, nomatches>>
    /\ UNCHANGED notkm

\* kmeans, lines 78-111: one assignment pass and the new centroids; a
\* division total/count with count = 0 raises.
AssignPass ==
    /\ kpc = "loop"
    /\ LoopCondition(n_changed, iters, maxiter)
    /\ LET n == Len(vectors)
           vidx == 1..Len(vectors[1])
           assigned == [k \in 1..n |->
                           NearerHigh(vectors[k], high_centroid, low_centroid)]
           changed == Cardinality({k \in 1..n : assigned[k] # assignments[k]})
           high_count == [i \in vidx |-> ClassCount(vectors, assigned, TRUE, i, n)]
           low_count == [i \in vidx |-> ClassCount(vectors, assigned, FALSE, i, n)]
       IN  /\ assignments' = assigned
           /\ n_changed' = changed
           /\ iters' = iters + 1
           /\ firstzero' = IF firstzero = 0 /\ changed = 0 THEN iters + 1
                           ELSE firstzero
           /\ IF \E i \in vidx : high_count[i] = 0 \/ low_count[i] = 0
              THEN /\ kerr' = "ZeroDivisionError"
                   /\ kpc' = "raised"
                   /\ UNCHANGED <<high_centroid, low_centroid>>
              ELSE /\ high_centroid' =
                         [i \in vidx |->
                             Frac(ClassTotal(vectors, assigned, TRUE, i, n), high_count[i])]
                   /\ low_centroid' =
                         [i \in vidx |->
                             Frac(ClassTotal(vectors, assigned, FALSE, i, n), low_count[i])]
                   /\ UNCHANGED <<kerr, kpc>>
    /\ UNCHANGED <<vectors, entered, maxiter, matches, nomatches>>
    /\ UNCHANGED notkm

\* kmeans, lines 113-115: the loop is left, the two sets are returned.
KMeansReturn ==
    /\ kpc = "loop"
    /\ ~LoopCondition(n_changed, iters, maxiter)
    /\ matches' = {k \in DOMAIN assignments : assignments[k]}
    /\ nomatches' = {k \in DOMAIN assignments : ~assignments[k]}
    /\ kpc' = "returned"
    /\ UNCHANGED <<vectors, entered, maxiter, assignments, high_centroid,
                   low_centroid, n_changed, iters, firstzero, kerr>>
    /\ UNCHANGED notkm

NextKMeans ==
    \/ KMeansEmpty
    \/ KMeansSetup
    \/ AssignPass
    \/ KMeansReturn

SpecKMeans == InitKMeans /\ [][NextKMeans]_vars

\* C9: kmeans makes no assignment pass after the first pass that changed no
\* pair, and otherwise stops after maxiter passes: when it returns it has
\* executed min(maxiter, first pass with zero changes) passes.
C9_StopsWhenNothingChanged ==
    kpc = "returned" =>
        iters = IF firstzero # 0 /\ firstzero < maxiter THEN firstzero ELSE maxiter

\* C10: kmeans called with an empty mapping returns two empty sets, raises
\* nothing and executes no assignment pass.
C10_EmptyInputReturnsEmptySets ==
    (vectors = <<>> /\ kpc # "call") =>
        /\ kpc = "returned"
        /\ kerr = ""
        /\ matches = {}
        /\ nomatches = {}
        /\ iters = 0

\* C11: in kmeans, whenever an assignment pass leaves a class with no
\* non-missing contributor in some component (an empty class included), the
\* recomputation of the centroids reports a degenerate-input error and never
\* divides a total by a count of zero.
C11_DegenerateInputRejected ==
    (/\ iters > 0
     /\ \E cls \in BOOLEAN : \E i \in 1..VLen :
            ClassCount(vectors, assignments, cls, i, Len(vectors)) = 0)
        => /\ kpc = "raised"
           /\ kerr \notin {"", "ZeroDivisionError"}

\* C12: kmeans partitions its input.  Once the initial assignment is made
\* every pair has exactly one class at every point (all start as non-match);
\* when kmeans returns, matches and nomatches are disjoint and their union is
\* the key set of the input; and the comparisons mapping holds the same
\* entries as when kmeans was called.
C12_PartitionOfInput ==
    /\ kpc \in {"loop", "returned"} =>
          /\ assignments \in [DOMAIN entered -> BOOLEAN]
          /\ vectors = entered
    /\ (kpc = "loop" /\ iters = 0) => \A k \in DOMAIN entered : ~assignments[k]
    /\ kpc = "returned" =>
          /\ matches \cap nomatches = {}
          /\ matches \cup nomatches = DOMAIN entered

\* C12 witness: kmeans has returned with pairs in both classes.
C12_Witness ==
    /\ kpc = "returned"
    /\ matches # {}
    /\ nomatches # {}
    /\ Len(entered) = NPairs

\* ================================================ rulebased, the classifier

\* What a rule can hand back: True, False, None, and values that are none
\* of the three (the numbers 1.0 and 0.0, the string "yes").
RuleValues == {"True", "False", "None", "1.0", "0.0", "yes"}

\* classify_bool, line 26: ismatch = rule(simvec), for three rules a caller
\* may supply: a threshold test that abstains on a missing score, a rule that
\* hands back the score itself, and a rule that answers "yes" or False.
Rules == {"threshold", "score", "yes"}
ApplyRule(r, simvec) ==
    CASE r = "threshold" -> IF simvec[1] = None THEN "None"
                            ELSE IF simvec[1] = 1 THEN "True" ELSE "False"
      [] r = "score"     -> IF simvec[1] = None THEN "None"
                            ELSE IF simvec[1] = 1 THEN "1.0" ELSE "0.0"
      [] r = "yes"       -> IF simvec[1] = 1 THEN "yes" ELSE "False"

\* classify_bool, lines 27-34: the identity tests on the rule's result.
\* Mutant of SetFor: truth tests in place of the identity tests.
SetForTruthy(ismatch) ==
    CASE ismatch \in {"True", "1.0", "yes"} -> "matches"
      [] ismatch \in {"False", "0.0"}       -> "nonmatches"
      [] OTHER                              -> "uncertain"
\* Mutant of SetFor: None is taken as False.
SetForNoUncertain(ismatch) ==
    CASE ismatch = "True"  -> "matches"
      [] ismatch \in {"False", "None"} -> "nonmatches"
      [] OTHER             -> "ValueError"
\* The set the pair goes to, or the exception raised.
SetFor(ismatch) ==
    CASE ismatch = "True"  -> "matches"
      [] ismatch = "False" -> "nonmatches"
      [] ismatch = "None"  -> "uncertain"
      [] OTHER             -> "ValueError"

\* classify_bool or classify is called with any rule and any mapping of up
\* to NPairs keys; line 24: the three sets start empty.
InitRule ==
    /\ IndexerIdle
    /\ KMeansIdle
    /\ SetIdle
    /\ TwinIdle
    /\ rule \in Rules
    /\ rentry \in {"classify_bool", "classify"}
    /\ \E n \in 0..NPairs :
          /\ rcomparisons \in [1..n -> [1..VLen -> Scores]]
          /\ \A k \in 1..(n - 1) :
                VCode(rcomparisons[k], 1) <= VCode(rcomparisons[k + 1], 1)
    /\ rpc = "loop"
    /\ rtodo = DOMAIN rcomparisons
    /\ rmatches = {}
    /\ rnonmatches = {}
    /\ runcertain = {}
    /\ rresult = NoResult
    /\ rerr = ""

\* classify_bool, lines 25-34: one turn of the for loop (a dict is iterated
\* in no particular order).
ClassifyStep ==
    /\ rpc = "loop"
    /\ \E pair \in rtodo :
          LET ismatch == ApplyRule(rule, rcomparisons[pair])
              to == SetFor(ismatch)
          IN  /\ rtodo' = rtodo \ {pair}
              /\ rmatches' = IF to = "matches" THEN rmatches \cup {pair} ELSE rmatches
              /\ rnonmatches' = IF to = "nonmatches" THEN rnonmatches \cup {pair}
                                ELSE rnonmatches
              /\ runcertain' = IF to = "uncertain" THEN runcertain \cup {pair}
                               ELSE runcertain
              /\ IF to = "ValueError"
                 THEN rerr' = "ValueError" /\ rpc' = "raised"
                 ELSE UNCHANGED <<rerr, rpc>>
    /\ UNCHANGED <<rule, rcomparisons, rentry, rresult>>
    /\ UNCHANGED notrule

\* classify_bool, line 38: the loop is over, the three sets are returned.
ClassifyBoolReturn ==
    /\ rpc = "loop"
    /\ rtodo = {}
    /\ rentry = "classify_bool"
    /\ rresult' = <<rmatches, rnonmatches, runcertain>>
    /\ rpc' = "returned"
    /\ UNCHANGED <<rule, rcomparisons, rentry, rtodo, rmatches, rnonmatches,
                   runcertain, rerr>>
    /\ UNCHANGED notrule

\* classify, lines 50-51: classify_bool has returned; the matches are scored
\* 1.0, the non-matches 0.0.
ClassifyReturn ==
    /\ rpc = "loop"
    /\ rtodo = {}
    /\ rentry = "classify"
    /\ rresult' = <<[x \in rmatches |-> 1], [x \in rnonmatches |-> 0]>>
    /\ rpc' = "returned"
    /\ UNCHANGED <<rule, rcomparisons, rentry, rtodo, rmatches, rnonmatches,
                   runcertain, rerr>>
    /\ UNCHANGED notrule

NextRule ==
    \/ ClassifyStep
    \/ ClassifyBoolReturn
    \/ ClassifyReturn

SpecRule == InitRule /\ [][NextRule]_vars

\* The pairs for which the rule answers r.
Answered(r) == {k \in DOMAIN rcomparisons : ApplyRule(rule, rcomparisons[k]) = r}

\* C13: with a rule that answers only True, False or None, classify_bool
\* returns three pairwise disjoint sets whose union is the key set of the
\* input: a pair is in matches iff the rule answered True, in nonmatches iff
\* False, in uncertain iff None; an empty mapping gives three empty sets.
C13_ClassifyBoolPartitions ==
    (/\ rentry = "classify_bool"
     /\ rpc # "loop"
     /\ \A k \in DOMAIN rcomparisons :
           ApplyRule(rule, rcomparisons[k]) \in {"True", "False", "None"})
        => /\ rpc = "returned"
           /\ rresult = <<Answered("True"), Answered("False"), Answered("None")>>
           /\ rresult[1] \cap rresult[2] = {}
           /\ rresult[1] \cap rresult[3] = {}
           /\ rresult[2] \cap rresult[3] = {}
           /\ rresult[1] \cup rresult[2] \cup rresult[3] = DOMAIN rcomparisons
           /\ rcomparisons = <<>> => rresult = <<{}, {}, {}>>

\* C13 witness: classify_bool has returned three non-empty sets.
C13_Witness ==
    /\ rentry = "classify_bool"
    /\ rpc = "returned"
    /\ rresult[1] # {}
    /\ rresult[2] # {}
    /\ rresult[3] # {}

\* The pairs the for loop has visited.
Visited == (DOMAIN rcomparisons) \ rtodo

\* C14: when the rule answers, for a pair, a value that is none of True,
\* False and None (the string "yes", a truthy or falsy number), classify_bool
\* and classify fail with an error: the pair is put in none of the sets and no
\* partition is returned.
C14_InvalidRuleValueRaises ==
    /\ (\E k \in Visited : ApplyRule(rule, rcomparisons[k]) \notin {"True", "False", "None"})
          => /\ rpc = "raised"
             /\ rerr = "ValueError"
             /\ rresult = NoResult
    /\ \A k \in DOMAIN rcomparisons :
          ApplyRule(rule, rcomparisons[k]) \notin {"True", "False", "None"}
              => k \notin rmatches \cup rnonmatches \cup runcertain
    /\ rpc = "returned" =>
          \A k \in DOMAIN rcomparisons :
              ApplyRule(rule, rcomparisons[k]) \in {"True", "False", "None"}

\* C14 witness: classify has failed on a pair for which the rule answered a
\* number, after other pairs were classified.
C14_Witness ==
    /\ rentry = "classify"
    /\ rpc = "raised"
    /\ rule = "score"
    /\ \E k \in Visited : ApplyRule(rule, rcomparisons[k]) = "0.0"
    /\ runcertain # {}

\* The caller gave the same Indeces object as both arguments.
SameObjectTwice == arg1 = 1 /\ arg2 = 1

\* C15: a dual-index comparison given the same Indeces object as both
\* arguments is rejected as a usage error before any pair is compared: no
\* call of compare happens and no mapping is returned, whether it was
\* requested through compare_indexed_dual or through compare_indexed.
C15_SameObjectRejected ==
    (SameObjectTwice /\ entry \in {"compare_indexed_dual", "compare_indexed"})
        => /\ err = "AssertionError"
           /\ pc = "done"
           /\ calls = NoCalls
           /\ comparisons = NoComparisons

\* C15 as the code has it: compare_indexed_dual rejects the same object
\* given twice (AssertionError, no call of compare, no mapping), while
\* compare_indexed given the same object twice raises nothing and does the
\* single-set comparison of that object.
C15_DualRejectsCompareIndexedGoesSingle ==
    /\ (SameObjectTwice /\ entry = "compare_indexed_dual")
          => /\ err = "AssertionError"
             /\ pc = "done"
             /\ calls = NoCalls
             /\ comparisons = NoComparisons
    /\ (SameObjectTwice /\ entry = "compare_indexed")
          => /\ err = ""
             /\ pc \in {"single", "done"}
             /\ DOMAIN calls = DOMAIN comparisons
             /\ pc = "done" =>
                   {{p[1], p[2]} : p \in DOMAIN comparisons} =
                      {{x[1], x[2]} : x \in
                          {y \in Inserted(1) \X Inserted(1) :
                              y[1] # y[2] /\ ShareBucket(y[1], y[2])}}

\* C15 witness: compare_indexed_dual was given twice an Indeces object in
\* which two records share a bucket, and has raised.
C15_Witness ==
    /\ SameObjectTwice
    /\ entry = "compare_indexed_dual"
    /\ err = "AssertionError"
    /\ \E a, b \in Inserted(1) : a # b /\ ShareBucket(a, b)

\* ============================================================ SetComparator

\* A score as a fraction; None is written as the fraction 0/0.
ScoreOf(x) == IF x = None THEN Frac(0, 0) ELSE Frac(x, 1)

\* SetComparator.__call__, lines 191-192: the set of the encoded values.
Encoded(enc, values) == {encode(enc, v) : v \in values}

\* SetComparator.__call__, line 193: sorted([f1, f2], key=len), a stable
\* sort: <<short set, long set>>, f1 first when the sizes are equal.
\* Mutant of ShortLong: the two sets are not sorted.
ShortLongUnsorted(f1, f2) == <<f1, f2>>
\* The sorted pair.
ShortLong(f1, f2) ==
    IF Cardinality(f2) < Cardinality(f1) THEN <<f2, f1>> ELSE <<f1, f2>>

\* SetComparator.__call__, line 202: max(best, comp); Python 2 orders None
\* below every number.
PyMax(best, comp) ==
    IF comp = None THEN best
    ELSE IF best = None THEN comp
    ELSE IF best < comp THEN comp ELSE best

\* SetComparator.__call__, lines 199-202: the inner loop over the long set.
RECURSIVE BestLoop(_, _, _, _)
BestLoop(prim, v1, f2, best) ==
    IF f2 = {} THEN best
    ELSE LET v2 == CHOOSE x \in f2 : TRUE
         IN  BestLoop(prim, v1, f2 \ {v2}, PyMax(best, comparevalues(prim, v1, v2)))

\* SetComparator.__call__, lines 197-203: the outer loop over the short set.
RECURSIVE TotalLoop(_, _, _, _)
TotalLoop(prim, f1, f2, total) ==
    IF f1 = {} THEN total
    ELSE LET v1 == CHOOSE x \in f1 : TRUE
         IN  TotalLoop(prim, f1 \ {v1}, f2, total + BestLoop(prim, v1, f2, 0))

\* SetComparator.__call__(record1, record2), values1 = field1(record1) and
\* values2 = field2(record2).
SetComparator(prim, enc, values1, values2) ==
    LET sl == ShortLong(Encoded(enc, values1), Encoded(enc, values2))
        f1 == sl[1]
        f2 == sl[2]
    IN  IF Cardinality(f1) = 0 \/ Cardinality(f2) = 0
        THEN ScoreOf(comparevalues(prim, None, None))
        ELSE Frac(TotalLoop(prim, f1, f2, 0), Cardinality(f1))

\* A SetComparator is called on two records, with any primitive, either
\* encoder, and any two sets of field values.
InitSet ==
    /\ IndexerIdle
    /\ KMeansIdle
    /\ RuleIdle
    /\ TwinIdle
    /\ svalues1 \in SUBSET Vals
    /\ svalues2 \in SUBSET Vals
    /\ sprim \in Prims
    /\ sencode \in {"identity", "fold"}
    /\ spc = "call"
    /\ sresult = NoResult

\* SetComparator.__call__ runs and returns.
SetCompare ==
    /\ spc = "call"
    /\ sresult' = SetComparator(sprim, sencode, svalues1, svalues2)
    /\ spc' = "returned"
    /\ UNCHANGED <<svalues1, svalues2, sprim, sencode>>
    /\ UNCHANGED notset

NextSet == SetCompare

SpecSet == InitSet /\ [][NextSet]_vars

\* The two encoded sets of the call, the shorter one first (the first record's
\* when the sizes are equal), and the score of a pair of their values.
SetS ==
    IF Cardinality(Encoded(sencode, svalues1)) <= Cardinality(Encoded(sencode, svalues2))
    THEN Encoded(sencode, svalues1) ELSE Encoded(sencode, svalues2)
SetL ==
    IF Cardinality(Encoded(sencode, svalues1)) <= Cardinality(Encoded(sencode, svalues2))
    THEN Encoded(sencode, svalues2) ELSE Encoded(sencode, svalues1)
PairScores(v1) == {comparevalues(sprim, v1, v2) : v2 \in SetL}
\* Sum of f[v] over the domain of f, the values of f lying in s..hi.
RECURSIVE SumByScore(_, _, _)
SumByScore(f, s, hi) ==
    IF s > hi THEN 0
    ELSE s * Cardinality({v \in DOMAIN f : f[v] = s}) + SumByScore(f, s + 1, hi)
FracEq(x, y) == x.den # 0 /\ y.den # 0 /\ x.num * y.den = y.num * x.den

\* C16: on two records whose encoded sets S (the smaller, the first record's
\* when the sizes are equal) and L are not empty, SetComparator returns the
\* average over v1 in S of the maximum over v2 in L of primitive(v1, v2), for
\* every primitive with scores in a bounded set; if either set is empty it
\* returns primitive(None, None).
C16_AverageOfBest ==
    spc = "returned" =>
        IF SetS = {} \/ SetL = {}
        THEN sresult = ScoreOf(comparevalues(sprim, None, None))
        ELSE (\A v1 \in SetS : None \notin PairScores(v1)) =>
                FracEq(sresult,
                       Frac(SumByScore([v1 \in SetS |-> SetMax(PairScores(v1))],
                                       -2 * MaxVal, MaxVal),
                            Cardinality(SetS)))

\* C16 as the code has it: the best score of v1 is the largest of 0.0 and the
\* scores primitive(v1, v2) that are not None, so a negative best score and a
\* v1 with no score at all both count as 0.0.
C16_AverageOfBestFromZero ==
    spc = "returned" =>
        IF SetS = {} \/ SetL = {}
        THEN sresult = ScoreOf(comparevalues(sprim, None, None))
        ELSE FracEq(sresult,
                    Frac(SumByScore([v1 \in SetS |->
                                        SetMax({0} \cup (PairScores(v1) \ {None}))],
                                    0, MaxVal),
                         Cardinality(SetS)))

\* C16 witness: the tags {1, 2} against {1} under exact match: the shorter
\* set is the second record's, and the score is 1.0.
C16_Witness ==
    /\ spc = "returned"
    /\ sprim = "exact"
    /\ sencode = "identity"
    /\ svalues1 = {1, 2}
    /\ svalues2 = {1}
    /\ FracEq(sresult, Frac(1, 1))

\* ================================================== kmeans, the whole call

\* How a call of kmeans ended: returned or raised, with what.
Outcome(how, exception, assigned, high, low) ==
    [kpc |-> how, kerr |-> exception,
     matches |-> {k \in DOMAIN assigned : assigned[k]},
     nomatches |-> {k \in DOMAIN assigned : ~assigned[k]},
     high_centroid |-> high, low_centroid |-> low]

\* kmeans, lines 78-115: the while loop and the return.
RECURSIVE KMeansLoop(_, _, _, _, _, _, _)
KMeansLoop(vecs, cap, assigned, high, low, changed, its) ==
    IF ~LoopCondition(changed, its, cap)
    THEN Outcome("returned", "", assigned, high, low)
    ELSE LET n == Len(vecs)
             vidx == 1..Len(vecs[1])
             new == [k \in 1..n |-> NearerHigh(vecs[k], high, low)]
             nchanged == Cardinality({k \in 1..n : new[k] # assigned[k]})
             high_count == [i \in vidx |-> ClassCount(vecs, new, TRUE, i, n)]
             low_count == [i \in vidx |-> ClassCount(vecs, new, FALSE, i, n)]
         IN  IF \E i \in vidx : high_count[i] = 0 \/ low_count[i] = 0
             THEN Outcome("raised", "ZeroDivisionError", <<>>, high, low)
             ELSE KMeansLoop(vecs, cap, new,
                     [i \in vidx |-> Frac(ClassTotal(vecs, new, TRUE, i, n), high_count[i])],
                     [i \in vidx |-> Frac(ClassTotal(vecs, new, FALSE, i, n), low_count[i])],
                     nchanged, its + 1)

\* kmeans(comparisons, distance, maxiter), lines 57-115.
kmeans(vecs, cap) ==
    IF vecs = <<>> THEN Outcome("raised", "KeyError", <<>>, <<>>, <<>>)
    ELSE LET vidx == 1..Len(vecs[1])
         IN  IF \E i \in vidx : Present(vecs, i) = {}
             THEN Outcome("raised", "ValueError", <<>>, <<>>, <<>>)
             ELSE KMeansLoop(vecs, cap, [k \in DOMAIN vecs |-> FALSE],
                     [i \in vidx |-> Frac(SetMax(Present(vecs, i)), 1)],
                     [i \in vidx |-> Frac(SetMin(Present(vecs, i)), 1)],
                     1, 0)

\* The whole call and the call taken pass by pass end alike.
RunAgreesWithSteps ==
    /\ kpc = "returned" =>
          kmeans(entered, maxiter) =
             [kpc |-> "returned", kerr |-> "", matches |-> matches,
              nomatches |-> nomatches, high_centroid |-> high_centroid,
              low_centroid |-> low_centroid]
    /\ kpc = "raised" =>
          /\ kmeans(entered, maxiter).kpc = "raised"
          /\ kmeans(entered, maxiter).kerr = kerr

\* The mapping with one more component, None, in every vector.
Extended(vecs) == [k \in DOMAIN vecs |-> Append(vecs[k], None)]

\* kmeans is to be called on any mapping of up to NPairs keys and on the
\* same mapping with the extra component, with any cap.
InitTwin ==
    /\ IndexerIdle
    /\ KMeansIdle
    /\ RuleIdle
    /\ SetIdle
    /\ \E n \in 0..NPairs :
          /\ tvectors \in [1..n -> [1..VLen -> Scores]]
          /\ \A k \in 1..(n - 1) : VCode(tvectors[k], 1) <= VCode(tvectors[k + 1], 1)
    /\ tmaxiter \in 0..MaxIter
    /\ tpc = "call"
    /\ tbase = NoResult
    /\ textended = NoResult

\* kmeans(tvectors, distance, tmaxiter) runs.
TwinBase ==
    /\ tpc = "call"
    /\ tbase' = kmeans(tvectors, tmaxiter)
    /\ tpc' = "base"
    /\ UNCHANGED <<tvectors, tmaxiter, textended>>
    /\ UNCHANGED nottwin

\* kmeans(Extended(tvectors), distance, tmaxiter) runs.
TwinExtended ==
    /\ tpc = "base"
    /\ textended' = kmeans(Extended(tvectors), tmaxiter)
    /\ tpc' = "done"
    /\ UNCHANGED <<tvectors, tmaxiter, tbase>>
    /\ UNCHANGED nottwin

NextTwin ==
    \/ TwinBase
    \/ TwinExtended

SpecTwin == InitTwin /\ [][NextTwin]_vars

\* C17: kmeans is neutral to a missing component.  When every vector of a
\* non-empty mapping gets one more component that is None in all of them,
\* kmeans returns the same matches and nomatches as without it, and the other
\* components of the centroids are the same.
C17_MissingComponentNeutral ==
    (tpc = "done" /\ tvectors # <<>> /\ tbase.kpc = "returned") =>
        /\ textended.kpc = "returned"
        /\ textended.matches = tbase.matches
        /\ textended.nomatches = tbase.nomatches
        /\ \A i \in 1..VLen :
              /\ textended.high_centroid[i] = tbase.high_centroid[i]
              /\ textended.low_centroid[i] = tbase.low_centroid[i]

\* C18: every entry (a, b) -> v of a mapping returned by compare_all_pairs,
\* compare_indexed_single or compare_indexed_dual holds the vector of its own
\* key, v = compare(a, b) with the records in key order, whatever the
\* comparators (asymmetric ones included), and v has one component per
\* configured comparator, in configuration order.
C18_VectorOfItsOwnKey ==
    /\ \A p \in DOMAIN comparisons :
          /\ comparisons[p] = compare(p[1], p[2])
          /\ Len(comparisons[p]) = Len(Comparators)
    /\ \A p \in DOMAIN allpairs.comparisons :
          /\ allpairs.comparisons[p] = compare(p[1], p[2])
          /\ Len(allpairs.comparisons[p]) = Len(Comparators)

\* The part of C18 about the two indexed drivers.
IndexedVectorOfItsOwnKey ==
    \A p \in DOMAIN comparisons : comparisons[p] = compare(p[1], p[2])

====
